---- MODULE Spec2Model ----
\* A model of the umbeluzi/ratelimit library: one limiter instance (Fixed
\* Window, Sliding Window, Leaky Bucket or Token Bucket) over one Counter
\* Store (the documented in-memory store or the documented Redis store) and
\* one Parameter Source (config.Static), driven by a caller, a clock, the
\* Leaky Bucket's deferred leaks and the Token Bucket's refill goroutine.
EXTENDS Integers, FiniteSets, Sequences, TLC

\* ------------------------------------------------------------------ bounds
MaxTime == 2            \* the clock runs over 0..MaxTime
Interval == 2           \* the configured interval, in clock units
MaxMaxRequests == 1     \* maxRequests ranges over 1..MaxMaxRequests (and the example's 5)
MaxBurstLimit == 1      \* burstLimit ranges over 0..MaxBurstLimit (and the example's 2)
Slack == 1              \* Allow calls explored beyond the admission limit, per key

\* --------------------------------------------------------- program constants
ExampleMaxRequests == 5
ExampleBurstLimit == 2
MinDuration == 0 - 1000000   \* stands for the minimum Duration, where time.Until saturates
MaxDuration == 1000000       \* stands for the maximum Duration, where Time.Sub saturates
ZeroTime == 0 - 1000         \* stands for the zero time.Time (and for "no expiry")

Keys == {"k1", "k2"}
Algorithms == {"FixedWindow", "SlidingWindow", "LeakyBucket", "TokenBucket"}
Backends == {"memory", "redis"}
\* The instants at which a leak goroutine started within the clock's range can
\* wake up within it; one that wakes later never acts and is not tracked.
DueTimes == 0..MaxTime

\* The collaborator operation that a call finds failing ("none": no failure).
StoreOps == {"Increment", "SetTTL", "Get", "TTL"}
ConfigOps == {"MaxRequests", "Interval", "BurstLimit", "Tokens", "SetTokens",
              "LastRefill", "SetLastRefill"}
Faults == {"none"} \cup StoreOps \cup ConfigOps

VARIABLES
    alg,        \* which limiter the instance is
    storage,    \* the Counter Store: [kind, data, ttl]
    config,     \* config.Static: [maxRequests, interval, burstLimit, tokens, lastRefill]
    now,        \* the wall clock
    leaks,      \* Leaky Bucket: sleeping leak goroutines, per key and due time
    refill,     \* Token Bucket: [nextTick, stopChannel, goroutine, panicked]
    last,       \* the operation that made the last step, with what it returned
    hist,       \* per key: what happened in the key's current window
    mu,         \* the instance's mutex: "free" or the goroutine that holds it
    procs,      \* per goroutine: where it is in its call and what it has read
    window,     \* per key: the admissions and SetTTL calls of the current window
    span        \* Leaky Bucket, per key: the admissions since a bucket-opening request

vars == <<alg, storage, config, now, leaks, refill, last, hist, mu, procs, window, span>>

\* ------------------------------------------------------------- Counter Store
\* Increment counting the request on every key instead of the one given.
IncrementEveryKey(s, key) ==
    [storage |-> [s EXCEPT !.data = [k \in Keys |-> s.data[k] + 1]], val |-> s.data[key] + 1]

\* Increment returning the count it found instead of the count it left.
IncrementReturnsPrevious(s, key) ==
    [storage |-> [s EXCEPT !.data[key] = @ + 1], val |-> s.data[key]]

\* Increment: memory s.data[key]++ ; redis INCR (creates the key at 1, no expiry).
Increment(s, key) ==
    [storage |-> [s EXCEPT !.data[key] = @ + 1], val |-> s.data[key] + 1]

\* Reset: memory s.data[key] = 0 (the ttl map is untouched); redis DEL (the key
\* and its expiry are gone).
Reset(s, key) ==
    IF s.kind = "memory"
    THEN [s EXCEPT !.data[key] = 0]
    ELSE [s EXCEPT !.data[key] = 0, !.ttl[key] = ZeroTime]

\* TTL: memory time.Until(s.ttl[key]), which saturates for the zero time of a
\* key never given a TTL; redis TTL: -2 for a missing key, -1 for a key
\* without expiry, the remaining time otherwise.
TTL(s, key, t) ==
    IF s.kind = "memory"
    THEN IF s.ttl[key] = ZeroTime THEN MinDuration ELSE s.ttl[key] - t
    ELSE IF s.data[key] = 0 THEN 0 - 2
         ELSE IF s.ttl[key] = ZeroTime THEN 0 - 1
         ELSE s.ttl[key] - t

\* SetTTL that stores the current instant, without adding the duration.
SetTTLNoDuration(s, key, d, t) ==
    IF s.kind = "memory" \/ s.data[key] > 0
    THEN [s EXCEPT !.ttl[key] = t]
    ELSE s

\* SetTTL: memory s.ttl[key] = time.Now().Add(ttl); redis EXPIRE (no effect on
\* a missing key).
SetTTL(s, key, d, t) ==
    IF s.kind = "memory" \/ s.data[key] > 0
    THEN [s EXCEPT !.ttl[key] = t + d]
    ELSE s

\* Get: memory s.data[key]; redis GET, which reports redis.Nil for a missing key.
Get(s, key) ==
    IF s.kind = "redis" /\ s.data[key] = 0
    THEN [val |-> 0, err |-> "redis.Nil"]
    ELSE [val |-> s.data[key], err |-> "nil"]

\* The Redis server drops a key when its expiry is reached.
ExpireKeys(s, t) ==
    IF s.kind = "redis"
    THEN [s EXCEPT
            !.data = [k \in Keys |-> IF s.ttl[k] # ZeroTime /\ s.ttl[k] <= t THEN 0 ELSE s.data[k]],
            !.ttl = [k \in Keys |-> IF s.ttl[k] # ZeroTime /\ s.ttl[k] <= t THEN ZeroTime ELSE s.ttl[k]]]
    ELSE s

\* ------------------------------------------------------------------- results
\* What an Allow call returns (admitted, err) and leaves behind (storage,
\* config, leak: a leak goroutine was started); failed names the collaborator
\* operation that failed during the call, whether or not the call reported it.
AllowResult(admitted, err, failed, s, c, leak) ==
    [admitted |-> admitted, err |-> err, failed |-> failed,
     storage |-> s, config |-> c, leak |-> leak]

\* ---------------------------------------------------------------- FixedWindow
\* FixedWindowAllow with the limit test off by one (>= for >).
FixedWindowAllowOffByOne(s, c, key, t, fault) ==
    IF fault \in {"MaxRequests", "Interval", "BurstLimit", "Increment"}
    THEN AllowResult(FALSE, fault, fault, s, c, FALSE)
    ELSE LET inc == Increment(s, key)
             count == inc.val
         IN  IF count = 1 /\ fault = "SetTTL"
             THEN AllowResult(FALSE, fault, fault, inc.storage, c, FALSE)
             ELSE LET s2 == IF count = 1 THEN SetTTL(inc.storage, key, c.interval, t)
                                         ELSE inc.storage
                  IN  IF count >= c.maxRequests + c.burstLimit
                      THEN AllowResult(FALSE, "nil", "none", s2, c, FALSE)
                      ELSE AllowResult(TRUE, "nil", "none", s2, c, FALSE)

\* FixedWindowAllow with the limit test leaving out the burst limit.
FixedWindowAllowNoBurst(s, c, key, t, fault) ==
    IF fault \in {"MaxRequests", "Interval", "BurstLimit", "Increment"}
    THEN AllowResult(FALSE, fault, fault, s, c, FALSE)
    ELSE LET inc == Increment(s, key)
             count == inc.val
         IN  IF count = 1 /\ fault = "SetTTL"
             THEN AllowResult(FALSE, fault, fault, inc.storage, c, FALSE)
             ELSE LET s2 == IF count = 1 THEN SetTTL(inc.storage, key, c.interval, t)
                                         ELSE inc.storage
                  IN  IF count > c.maxRequests
                      THEN AllowResult(FALSE, "nil", "none", s2, c, FALSE)
                      ELSE AllowResult(TRUE, "nil", "none", s2, c, FALSE)

\* FixedWindowAllow setting the TTL on every request.
FixedWindowAllowExtendsTTL(s, c, key, t, fault) ==
    IF fault \in {"MaxRequests", "Interval", "BurstLimit", "Increment"}
    THEN AllowResult(FALSE, fault, fault, s, c, FALSE)
    ELSE LET inc == Increment(s, key)
             count == inc.val
         IN  IF fault = "SetTTL"
             THEN AllowResult(FALSE, fault, fault, inc.storage, c, FALSE)
             ELSE LET s2 == SetTTL(inc.storage, key, c.interval, t)
                  IN  IF count > c.maxRequests + c.burstLimit
                      THEN AllowResult(FALSE, "nil", "none", s2, c, FALSE)
                      ELSE AllowResult(TRUE, "nil", "none", s2, c, FALSE)

\* FixedWindowAllow taking a denied request back out of the counter.
FixedWindowAllowForgetsDenied(s, c, key, t, fault) ==
    IF fault \in {"MaxRequests", "Interval", "BurstLimit", "Increment"}
    THEN AllowResult(FALSE, fault, fault, s, c, FALSE)
    ELSE LET inc == Increment(s, key)
             count == inc.val
         IN  IF count = 1 /\ fault = "SetTTL"
             THEN AllowResult(FALSE, fault, fault, inc.storage, c, FALSE)
             ELSE LET s2 == IF count = 1 THEN SetTTL(inc.storage, key, c.interval, t)
                                         ELSE inc.storage
                  IN  IF count > c.maxRequests + c.burstLimit
                      THEN AllowResult(FALSE, "nil", "none", s, c, FALSE)
                      ELSE AllowResult(TRUE, "nil", "none", s2, c, FALSE)

FixedWindowAllow(s, c, key, t, fault) ==
    IF fault = "MaxRequests" THEN AllowResult(FALSE, fault, fault, s, c, FALSE)
    ELSE IF fault = "Interval" THEN AllowResult(FALSE, fault, fault, s, c, FALSE)
    ELSE IF fault = "BurstLimit" THEN AllowResult(FALSE, fault, fault, s, c, FALSE)
    ELSE IF fault = "Increment" THEN AllowResult(FALSE, fault, fault, s, c, FALSE)
    ELSE LET inc == Increment(s, key)
             count == inc.val
         IN  IF count = 1 /\ fault = "SetTTL"
             THEN AllowResult(FALSE, fault, fault, inc.storage, c, FALSE)
             ELSE LET s2 == IF count = 1 THEN SetTTL(inc.storage, key, c.interval, t)
                                         ELSE inc.storage
                  IN  IF count > c.maxRequests + c.burstLimit
                      THEN AllowResult(FALSE, "nil", "none", s2, c, FALSE)
                      ELSE AllowResult(TRUE, "nil", "none", s2, c, FALSE)

\* -------------------------------------------------------------- SlidingWindow
\* SlidingWindowAllow with the error of Increment dropped: the call goes on
\* with the zero count and admits.
SlidingWindowAllowDropsIncrementError(s, c, key, t, fault) ==
    IF fault \in {"MaxRequests", "Interval", "BurstLimit"}
    THEN AllowResult(FALSE, fault, fault, s, c, FALSE)
    ELSE IF fault = "Increment"
    THEN IF 0 > c.maxRequests + c.burstLimit
         THEN AllowResult(FALSE, "nil", fault, s, c, FALSE)
         ELSE AllowResult(TRUE, "nil", fault, s, c, FALSE)
    ELSE LET inc == Increment(s, key)
             count == inc.val
         IN  IF count = 1 /\ fault = "SetTTL"
             THEN AllowResult(FALSE, fault, fault, inc.storage, c, FALSE)
             ELSE LET s2 == IF count = 1 THEN SetTTL(inc.storage, key, c.interval, t)
                                         ELSE inc.storage
                  IN  IF count > c.maxRequests + c.burstLimit
                      THEN AllowResult(FALSE, "nil", "none", s2, c, FALSE)
                      ELSE AllowResult(TRUE, "nil", "none", s2, c, FALSE)

\* SlidingWindowAllow setting the TTL on every request, so that the expiry
\* slides with the last one.
SlidingWindowAllowExtendsTTL(s, c, key, t, fault) ==
    IF fault \in {"MaxRequests", "Interval", "BurstLimit", "Increment"}
    THEN AllowResult(FALSE, fault, fault, s, c, FALSE)
    ELSE LET inc == Increment(s, key)
             count == inc.val
         IN  IF fault = "SetTTL"
             THEN AllowResult(FALSE, fault, fault, inc.storage, c, FALSE)
             ELSE LET s2 == SetTTL(inc.storage, key, c.interval, t)
                  IN  IF count > c.maxRequests + c.burstLimit
                      THEN AllowResult(FALSE, "nil", "none", s2, c, FALSE)
                      ELSE AllowResult(TRUE, "nil", "none", s2, c, FALSE)

SlidingWindowAllow(s, c, key, t, fault) ==
    IF fault = "MaxRequests" THEN AllowResult(FALSE, fault, fault, s, c, FALSE)
    ELSE IF fault = "Interval" THEN AllowResult(FALSE, fault, fault, s, c, FALSE)
    ELSE IF fault = "BurstLimit" THEN AllowResult(FALSE, fault, fault, s, c, FALSE)
    ELSE IF fault = "Increment" THEN AllowResult(FALSE, fault, fault, s, c, FALSE)
    ELSE LET inc == Increment(s, key)
             count == inc.val
         IN  IF count = 1 /\ fault = "SetTTL"
             THEN AllowResult(FALSE, fault, fault, inc.storage, c, FALSE)
             ELSE LET s2 == IF count = 1 THEN SetTTL(inc.storage, key, c.interval, t)
                                         ELSE inc.storage
                  IN  IF count > c.maxRequests + c.burstLimit
                      THEN AllowResult(FALSE, "nil", "none", s2, c, FALSE)
                      ELSE AllowResult(TRUE, "nil", "none", s2, c, FALSE)

\* ---------------------------------------------------------------- LeakyBucket
\* LeakyBucketAllow with the TTL set on the second request instead of the first.
LeakyBucketAllowTTLOnSecond(s, c, key, t, fault) ==
    IF fault \in {"MaxRequests", "Interval", "BurstLimit", "Increment"}
    THEN AllowResult(FALSE, fault, fault, s, c, FALSE)
    ELSE LET inc == Increment(s, key)
             count == inc.val
         IN  IF count = 2 /\ fault = "SetTTL"
             THEN AllowResult(FALSE, fault, fault, inc.storage, c, FALSE)
             ELSE LET s2 == IF count = 2 THEN SetTTL(inc.storage, key, c.interval, t)
                                         ELSE inc.storage
                  IN  IF count > c.maxRequests + c.burstLimit
                      THEN AllowResult(FALSE, "nil", "none", s2, c, FALSE)
                      ELSE AllowResult(TRUE, "nil", "none", s2, c, TRUE)

\* LeakyBucketAllow starting the leak goroutine for a denied request as well.
LeakyBucketAllowLeaksOnDenial(s, c, key, t, fault) ==
    IF fault \in {"MaxRequests", "Interval", "BurstLimit", "Increment"}
    THEN AllowResult(FALSE, fault, fault, s, c, FALSE)
    ELSE LET inc == Increment(s, key)
             count == inc.val
         IN  IF count = 1 /\ fault = "SetTTL"
             THEN AllowResult(FALSE, fault, fault, inc.storage, c, FALSE)
             ELSE LET s2 == IF count = 1 THEN SetTTL(inc.storage, key, c.interval, t)
                                         ELSE inc.storage
                  IN  IF count > c.maxRequests + c.burstLimit
                      THEN AllowResult(FALSE, "nil", "none", s2, c, TRUE)
                      ELSE AllowResult(TRUE, "nil", "none", s2, c, TRUE)

\* LeakyBucketAllow undoing the increment when SetTTL fails.
LeakyBucketAllowRollsBack(s, c, key, t, fault) ==
    IF fault \in {"MaxRequests", "Interval", "BurstLimit", "Increment"}
    THEN AllowResult(FALSE, fault, fault, s, c, FALSE)
    ELSE LET inc == Increment(s, key)
             count == inc.val
         IN  IF count = 1 /\ fault = "SetTTL"
             THEN AllowResult(FALSE, fault, fault, s, c, FALSE)
             ELSE LET s2 == IF count = 1 THEN SetTTL(inc.storage, key, c.interval, t)
                                         ELSE inc.storage
                  IN  IF count > c.maxRequests + c.burstLimit
                      THEN AllowResult(FALSE, "nil", "none", s2, c, FALSE)
                      ELSE AllowResult(TRUE, "nil", "none", s2, c, TRUE)

\* An admitted call starts a goroutine that sleeps for interval and then
\* resets the key (leak |-> TRUE).
LeakyBucketAllow(s, c, key, t, fault) ==
    IF fault = "MaxRequests" THEN AllowResult(FALSE, fault, fault, s, c, FALSE)
    ELSE IF fault = "Interval" THEN AllowResult(FALSE, fault, fault, s, c, FALSE)
    ELSE IF fault = "BurstLimit" THEN AllowResult(FALSE, fault, fault, s, c, FALSE)
    ELSE IF fault = "Increment" THEN AllowResult(FALSE, fault, fault, s, c, FALSE)
    ELSE LET inc == Increment(s, key)
             count == inc.val
         IN  IF count = 1 /\ fault = "SetTTL"
             THEN AllowResult(FALSE, fault, fault, inc.storage, c, FALSE)
             ELSE LET s2 == IF count = 1 THEN SetTTL(inc.storage, key, c.interval, t)
                                         ELSE inc.storage
                  IN  IF count > c.maxRequests + c.burstLimit
                      THEN AllowResult(FALSE, "nil", "none", s2, c, FALSE)
                      ELSE AllowResult(TRUE, "nil", "none", s2, c, TRUE)

\* ---------------------------------------------------------------- TokenBucket
\* TokenBucketAllow counting every request in the Counter Store, also the ones
\* paid for with a token.
TokenBucketAllowCountsAll(s, c, key, t, fault) ==
    IF fault = "Tokens" THEN AllowResult(FALSE, fault, fault, s, c, FALSE)
    ELSE IF fault = "BurstLimit" THEN AllowResult(FALSE, fault, fault, s, c, FALSE)
    ELSE IF fault = "Increment" THEN AllowResult(FALSE, fault, fault, s, c, FALSE)
    ELSE LET inc == Increment(s, key)
             count == inc.val
         IN  IF c.tokens > 0
             THEN IF fault = "SetTokens"
                  THEN AllowResult(TRUE, "nil", fault, inc.storage, c, FALSE)
                  ELSE AllowResult(TRUE, "nil", "none", inc.storage,
                                   [c EXCEPT !.tokens = c.tokens - 1], FALSE)
             ELSE IF count > c.burstLimit
                  THEN AllowResult(FALSE, "nil", "none", inc.storage, c, FALSE)
                  ELSE AllowResult(TRUE, "nil", "none", inc.storage, c, FALSE)

\* TokenBucketAllow with the overflow test off by one (>= for >).
TokenBucketAllowOverflowOffByOne(s, c, key, t, fault) ==
    IF fault = "Tokens" THEN AllowResult(FALSE, fault, fault, s, c, FALSE)
    ELSE IF fault = "BurstLimit" THEN AllowResult(FALSE, fault, fault, s, c, FALSE)
    ELSE IF c.tokens > 0
         THEN IF fault = "SetTokens"
              THEN AllowResult(TRUE, "nil", fault, s, c, FALSE)
              ELSE AllowResult(TRUE, "nil", "none", s, [c EXCEPT !.tokens = c.tokens - 1], FALSE)
    ELSE IF fault = "Increment" THEN AllowResult(FALSE, fault, fault, s, c, FALSE)
    ELSE LET inc == Increment(s, key)
             count == inc.val
         IN  IF count >= c.burstLimit
             THEN AllowResult(FALSE, "nil", "none", inc.storage, c, FALSE)
             ELSE AllowResult(TRUE, "nil", "none", inc.storage, c, FALSE)

\* TokenBucketAllow giving the overflow counter an expiry when it opens it,
\* as the other limiters do.
TokenBucketAllowSetsTTL(s, c, key, t, fault) ==
    IF fault = "Tokens" THEN AllowResult(FALSE, fault, fault, s, c, FALSE)
    ELSE IF fault = "BurstLimit" THEN AllowResult(FALSE, fault, fault, s, c, FALSE)
    ELSE IF c.tokens > 0
         THEN IF fault = "SetTokens"
              THEN AllowResult(TRUE, "nil", fault, s, c, FALSE)
              ELSE AllowResult(TRUE, "nil", "none", s, [c EXCEPT !.tokens = c.tokens - 1], FALSE)
    ELSE IF fault = "Increment" THEN AllowResult(FALSE, fault, fault, s, c, FALSE)
    ELSE LET inc == Increment(s, key)
             count == inc.val
             s2 == IF count = 1 THEN SetTTL(inc.storage, key, c.interval, t) ELSE inc.storage
         IN  IF count > c.burstLimit
             THEN AllowResult(FALSE, "nil", "none", s2, c, FALSE)
             ELSE AllowResult(TRUE, "nil", "none", s2, c, FALSE)

\* The error of SetTokens is dropped by the code; a failed write leaves the
\* balance as it was.
TokenBucketAllow(s, c, key, t, fault) ==
    IF fault = "Tokens" THEN AllowResult(FALSE, fault, fault, s, c, FALSE)
    ELSE IF fault = "BurstLimit" THEN AllowResult(FALSE, fault, fault, s, c, FALSE)
    ELSE IF c.tokens > 0
         THEN IF fault = "SetTokens"
              THEN AllowResult(TRUE, "nil", fault, s, c, FALSE)
              ELSE AllowResult(TRUE, "nil", "none", s, [c EXCEPT !.tokens = c.tokens - 1], FALSE)
    ELSE IF fault = "Increment" THEN AllowResult(FALSE, fault, fault, s, c, FALSE)
    ELSE LET inc == Increment(s, key)
             count == inc.val
         IN  IF count > c.burstLimit
             THEN AllowResult(FALSE, "nil", "none", inc.storage, c, FALSE)
             ELSE AllowResult(TRUE, "nil", "none", inc.storage, c, FALSE)

\* Integer division rounding up.
GoDivRoundsUp(a, b) == (a + b - 1) \div b

\* Go's integer division truncates toward zero.
GoDiv(a, b) == IF a >= 0 THEN a \div b ELSE 0 - ((0 - a) \div b)

\* refillTokens filling the bucket up to maxRequests at every tick.
refillTokensToMax(c, t, fault) ==
    IF fault = "Interval" THEN c
    ELSE LET maxTokens == IF fault = "MaxRequests" THEN 0 ELSE c.maxRequests
         IN  [c EXCEPT !.tokens = IF fault = "SetTokens" THEN @ ELSE maxTokens,
                       !.lastRefill = IF fault = "SetLastRefill" THEN @ ELSE t]

\* refillTokens.  Only the error of Interval is looked at; a failed read of
\* LastRefill, Tokens or MaxRequests yields the zero value, a failed write
\* writes nothing.
refillTokens(c, t, fault) ==
    IF fault = "Interval" THEN c
    ELSE LET elapsed == IF fault = "LastRefill" THEN MaxDuration ELSE t - c.lastRefill
             tokensToAdd == GoDiv(elapsed, c.interval)
             tokens == (IF fault = "Tokens" THEN 0 ELSE c.tokens) + tokensToAdd
             maxTokens == IF fault = "MaxRequests" THEN 0 ELSE c.maxRequests
             capped == IF tokens > maxTokens THEN maxTokens ELSE tokens
         IN  [c EXCEPT !.tokens = IF fault = "SetTokens" THEN @ ELSE capped,
                       !.lastRefill = IF fault = "SetLastRefill" THEN @ ELSE t]

\* ------------------------------------------------------- Quota, NextAllowed
\* What the call returns and the storage and config it leaves behind.
QuotaResult(count, maxRequests, burstLimit, err, s, c) ==
    [count |-> count, maxRequests |-> maxRequests, burstLimit |-> burstLimit,
     err |-> err, storage |-> s, config |-> c]

NextAllowedResult(dur, err, s, c) ==
    [dur |-> dur, err |-> err, storage |-> s, config |-> c]

\* FixedWindowQuota reading the count with Increment instead of Get.
FixedWindowQuotaIncrements(s, c, key, fault) ==
    IF fault = "Get" THEN QuotaResult(0, 0, 0, fault, s, c)
    ELSE IF fault = "MaxRequests" THEN QuotaResult(0, 0, 0, fault, Increment(s, key).storage, c)
    ELSE IF fault = "BurstLimit" THEN QuotaResult(0, 0, 0, fault, Increment(s, key).storage, c)
    ELSE QuotaResult(Increment(s, key).val, c.maxRequests, c.burstLimit, "nil",
                     Increment(s, key).storage, c)

FixedWindowQuota(s, c, key, fault) ==
    IF fault = "Get" THEN QuotaResult(0, 0, 0, fault, s, c)
    ELSE IF Get(s, key).err # "nil" THEN QuotaResult(0, 0, 0, Get(s, key).err, s, c)
    ELSE IF fault = "MaxRequests" THEN QuotaResult(0, 0, 0, fault, s, c)
    ELSE IF fault = "BurstLimit" THEN QuotaResult(0, 0, 0, fault, s, c)
    ELSE QuotaResult(Get(s, key).val, c.maxRequests, c.burstLimit, "nil", s, c)

FixedWindowNextAllowed(s, c, key, t, fault) ==
    IF fault = "TTL" THEN NextAllowedResult(0, fault, s, c)
    ELSE NextAllowedResult(TTL(s, key, t), "nil", s, c)

SlidingWindowQuota(s, c, key, fault) ==
    IF fault = "Get" THEN QuotaResult(0, 0, 0, fault, s, c)
    ELSE IF Get(s, key).err # "nil" THEN QuotaResult(0, 0, 0, Get(s, key).err, s, c)
    ELSE IF fault = "MaxRequests" THEN QuotaResult(0, 0, 0, fault, s, c)
    ELSE IF fault = "BurstLimit" THEN QuotaResult(0, 0, 0, fault, s, c)
    ELSE QuotaResult(Get(s, key).val, c.maxRequests, c.burstLimit, "nil", s, c)

SlidingWindowNextAllowed(s, c, key, t, fault) ==
    IF fault = "TTL" THEN NextAllowedResult(0, fault, s, c)
    ELSE NextAllowedResult(TTL(s, key, t), "nil", s, c)

LeakyBucketQuota(s, c, key, fault) ==
    IF fault = "Get" THEN QuotaResult(0, 0, 0, fault, s, c)
    ELSE IF Get(s, key).err # "nil" THEN QuotaResult(0, 0, 0, Get(s, key).err, s, c)
    ELSE IF fault = "MaxRequests" THEN QuotaResult(0, 0, 0, fault, s, c)
    ELSE IF fault = "BurstLimit" THEN QuotaResult(0, 0, 0, fault, s, c)
    ELSE QuotaResult(Get(s, key).val, c.maxRequests, c.burstLimit, "nil", s, c)

LeakyBucketNextAllowed(s, c, key, t, fault) ==
    IF fault = "TTL" THEN NextAllowedResult(0, fault, s, c)
    ELSE NextAllowedResult(TTL(s, key, t), "nil", s, c)

TokenBucketQuota(s, c, key, fault) ==
    IF fault = "Get" THEN QuotaResult(0, 0, 0, fault, s, c)
    ELSE IF Get(s, key).err # "nil" THEN QuotaResult(0, 0, 0, Get(s, key).err, s, c)
    ELSE IF fault = "MaxRequests" THEN QuotaResult(0, 0, 0, fault, s, c)
    ELSE IF fault = "BurstLimit" THEN QuotaResult(0, 0, 0, fault, s, c)
    ELSE QuotaResult(Get(s, key).val, c.maxRequests, c.burstLimit, "nil", s, c)

TokenBucketNextAllowed(s, c, key, t, fault) ==
    IF fault = "TTL" THEN NextAllowedResult(0, fault, s, c)
    ELSE NextAllowedResult(TTL(s, key, t), "nil", s, c)

\* ---------------------------------------------------------------- dispatch
Allow(s, c, key, t, fault) ==
    CASE alg = "FixedWindow" -> FixedWindowAllow(s, c, key, t, fault)
      [] alg = "SlidingWindow" -> SlidingWindowAllow(s, c, key, t, fault)
      [] alg = "LeakyBucket" -> LeakyBucketAllow(s, c, key, t, fault)
      [] alg = "TokenBucket" -> TokenBucketAllow(s, c, key, t, fault)

Quota(s, c, key, fault) ==
    CASE alg = "FixedWindow" -> FixedWindowQuota(s, c, key, fault)
      [] alg = "SlidingWindow" -> SlidingWindowQuota(s, c, key, fault)
      [] alg = "LeakyBucket" -> LeakyBucketQuota(s, c, key, fault)
      [] alg = "TokenBucket" -> TokenBucketQuota(s, c, key, fault)

NextAllowed(s, c, key, t, fault) ==
    CASE alg = "FixedWindow" -> FixedWindowNextAllowed(s, c, key, t, fault)
      [] alg = "SlidingWindow" -> SlidingWindowNextAllowed(s, c, key, t, fault)
      [] alg = "LeakyBucket" -> LeakyBucketNextAllowed(s, c, key, t, fault)
      [] alg = "TokenBucket" -> TokenBucketNextAllowed(s, c, key, t, fault)

\* The collaborator operations each method calls.
AllowFaults ==
    IF alg = "TokenBucket"
    THEN {"none", "Tokens", "BurstLimit", "SetTokens", "Increment"}
    ELSE {"none", "MaxRequests", "Interval", "BurstLimit", "Increment", "SetTTL"}
QuotaFaults == {"none", "Get", "MaxRequests", "BurstLimit"}
NextAllowedFaults == {"none", "TTL"}
RefillFaults == {"none", "Interval", "LastRefill", "Tokens", "MaxRequests",
                 "SetTokens", "SetLastRefill"}

\* ------------------------------------------------------------------- states
Configs == ((1..MaxMaxRequests) \X (0..MaxBurstLimit))
             \cup {<<ExampleMaxRequests, ExampleBurstLimit>>}

\* Last-refill instants a Token Bucket may be constructed with: before, at and
\* after the construction time 0.
InitLastRefills == {0 - Interval, 0, 2 * Interval}

NoKey == "-"

\* The goroutines that take the instance's mutex: two callers of Allow and
\* the Token Bucket's refill goroutine.
Callers == {"c1", "c2"}
Threads == Callers \cup {"refill"}
NoRead == [maxRequests |-> 0, interval |-> 0, burstLimit |-> 0, tokens |-> 0, lastRefill |-> 0]
\* A goroutine's frame: pc (where it is), key, read (the parameters it has
\* read), t (the time.Now() it has taken) and the result it is to return.
Frame(pc, key, read, t, admitted, err, failed) ==
    [pc |-> pc, key |-> key, read |-> read, t |-> t,
     admitted |-> admitted, err |-> err, failed |-> failed]
Idle == Frame("idle", NoKey, NoRead, 0, FALSE, "nil", "none")
NoTally == [admitted |-> 0, setTTLs |-> 0]
NoSpan == [start |-> 0 - 1, admitted |-> 0]
Call(op, key, admitted, err, failed, count, maxRequests, burstLimit, dur) ==
    [op |-> op, key |-> key, admitted |-> admitted, err |-> err, failed |-> failed,
     count |-> count, maxRequests |-> maxRequests, burstLimit |-> burstLimit, dur |-> dur]
Event(op, key) == Call(op, key, FALSE, "nil", "none", 0, 0, 0, 0)

\* Allow calls explored on one key in one window.
CountCap ==
    (IF alg = "TokenBucket" THEN config.burstLimit
                             ELSE config.maxRequests + config.burstLimit) + Slack

Init ==
    /\ alg \in Algorithms
    /\ \E kind \in Backends :
          storage = [kind |-> kind, data |-> [k \in Keys |-> 0],
                     ttl |-> [k \in Keys |-> ZeroTime]]
    /\ \E cfg \in Configs :
       \E tokens \in (IF alg = "TokenBucket" THEN 0..cfg[1] ELSE {0}) :
       \E lastRefill \in (IF alg = "TokenBucket" THEN InitLastRefills ELSE {0}) :
          config = [maxRequests |-> cfg[1], interval |-> Interval, burstLimit |-> cfg[2],
                    tokens |-> tokens, lastRefill |-> lastRefill]
    /\ now = 0
    /\ leaks = [k \in Keys |-> [d \in DueTimes |-> 0]]
    /\ refill = [nextTick |-> Interval, stopChannel |-> "open",
                 goroutine |-> IF alg = "TokenBucket" THEN "running" ELSE "none",
                 panicked |-> FALSE]
    /\ last = Event("New", NoKey)
    /\ hist = [k \in Keys |-> [calls |-> 0, prev |-> "none"]]
    /\ mu = "free"
    /\ procs = [th \in Threads |-> Idle]
    /\ window = [k \in Keys |-> NoTally]
    /\ span = [k \in Keys |-> NoSpan]

\* hist[key] describes the current window of key, which the Allow call that
\* takes its counter from 0 to 1 opens and the next reset of the counter closes:
\*   calls   the Allow calls made in it, or Poisoned once a collaborator
\*           operation has failed in one of them;
\*   prev    "expiredDenied" when the window before it was closed by the
\*           store's expiry with the counter above the limit, so that its
\*           last call had been denied (kept up to the call that opens the
\*           window).
Poisoned == 0 - 1

HistAfterAllow(key, r) ==
    LET opened == storage.data[key] = 0 /\ r.storage.data[key] = 1
        h == hist[key]
    IN  [hist EXCEPT ![key] =
            IF h.calls = 0 /\ ~opened THEN h
            ELSE [calls |-> IF h.calls = Poisoned \/ r.failed # "none" THEN Poisoned
                            ELSE h.calls + 1,
                  prev |-> IF opened THEN h.prev ELSE "none"]]

\* The bookkeeping after the store went from s1 to s2 by a reset (how: "leak")
\* or by an expiry (how: "expiry").
HistAfterReset(s1, s2, how) ==
    [k \in Keys |->
        IF s1.data[k] > 0 /\ s2.data[k] = 0
        THEN [calls |-> 0,
              prev |-> IF how = "expiry" /\ s1.data[k] > config.maxRequests + config.burstLimit
                       THEN "expiredDenied" ELSE "none"]
        ELSE hist[k]]

\* span[key] follows one stretch of length interval at a time: it starts at a
\* Leaky Bucket call that takes the counter from 0 to 1 when no stretch is
\* running, and counts the calls admitted on the key (up to one more than the
\* limit) until interval has passed.
SpanAfterAllow(key, r) ==
    LET sp == span[key]
        running == sp.start >= 0 /\ now < sp.start + config.interval
        opened == storage.data[key] = 0 /\ r.storage.data[key] = 1
        one == IF r.admitted THEN 1 ELSE 0
        most == config.maxRequests + config.burstLimit + 1
    IN  IF alg # "LeakyBucket" THEN span
        ELSE IF running
             THEN [span EXCEPT ![key].admitted = IF @ + one > most THEN most ELSE @ + one]
        ELSE IF opened THEN [span EXCEPT ![key] = [start |-> now, admitted |-> one]]
        ELSE [span EXCEPT ![key] = NoSpan]

\* A stretch ends when interval has passed since its start.
SpanAfterTick(t) ==
    [k \in Keys |->
        IF span[k].start >= 0 /\ t >= span[k].start + config.interval
        THEN NoSpan ELSE span[k]]

\* The keys the caller uses: all keys with a limiter that admits one request
\* per window, and one key otherwise (as cmd/example does).
KeysUsed ==
    IF config.maxRequests + config.burstLimit = 1 THEN Keys ELSE {"k1"}

\* ------------------------------------------------------------------ actions
\* An Allow call, explored while the key's count is below cap.  (A call paid
\* with a token does not count in the store and needs no cap.)
AllowStep(cap, key, fault) ==
    /\ ~refill.panicked
    /\ \/ storage.data[key] < cap
       \/ alg = "TokenBucket" /\ config.tokens > 0
    /\ LET r == Allow(storage, config, key, now, fault)
       IN  /\ storage' = r.storage
           /\ config' = r.config
           /\ leaks' = IF r.leak /\ now + config.interval \in DueTimes
                       THEN [leaks EXCEPT ![key][now + config.interval] = @ + 1]
                       ELSE leaks
           /\ last' = Call("Allow", key, r.admitted, r.err, r.failed, 0, 0, 0, 0)
           /\ hist' = HistAfterAllow(key, r)
    /\ UNCHANGED <<alg, window, mu, procs, now, refill>>

AllowCallUpTo(cap, key, fault) ==
    /\ AllowStep(cap, key, fault)
    /\ UNCHANGED span

AllowCall(key, fault) == AllowCallUpTo(CountCap, key, fault)

\* The Allow call with the admissions of the key's stretch counted.
LeakyBucketAllowCall(key, fault) ==
    /\ AllowStep(CountCap, key, fault)
    /\ span' = SpanAfterAllow(key, Allow(storage, config, key, now, fault))

QuotaCall(key, fault) ==
    /\ ~refill.panicked
    /\ LET r == Quota(storage, config, key, fault)
       IN  /\ storage' = r.storage
           /\ config' = r.config
           /\ last' = Call("Quota", key, FALSE, r.err, "none",
                           r.count, r.maxRequests, r.burstLimit, 0)
    /\ UNCHANGED <<alg, span, window, mu, procs, now, leaks, refill, hist>>

NextAllowedCall(key, fault) ==
    /\ ~refill.panicked
    /\ LET r == NextAllowed(storage, config, key, now, fault)
       IN  /\ storage' = r.storage
           /\ config' = r.config
           /\ last' = Call("NextAllowed", key, FALSE, r.err, "none", 0, 0, 0, r.dur)
    /\ UNCHANGED <<alg, span, window, mu, procs, now, leaks, refill, hist>>

\* The clock advances; the Redis server expires what is due.
Tick ==
    /\ ~refill.panicked
    /\ now < MaxTime
    /\ now' = now + 1
    /\ storage' = ExpireKeys(storage, now + 1)
    /\ hist' = HistAfterReset(storage, ExpireKeys(storage, now + 1), "expiry")
    /\ span' = SpanAfterTick(now + 1)
    /\ last' = Event("Tick", NoKey)
    /\ UNCHANGED <<alg, window, mu, procs, config, leaks, refill>>

\* A leak goroutine wakes up, at or after its due time, and resets its key
\* (the error of Reset is dropped).
Leak(key, due) ==
    /\ ~refill.panicked
    /\ leaks[key][due] > 0
    /\ now >= due
    /\ storage' = Reset(storage, key)
    /\ leaks' = [leaks EXCEPT ![key][due] = @ - 1]
    /\ hist' = HistAfterReset(storage, Reset(storage, key), "leak")
    /\ last' = Event("Leak", key)
    /\ UNCHANGED <<alg, span, window, mu, procs, config, now, refill>>

\* The refill goroutine receives a tick and runs refillTokens under the lock;
\* ticks that came while it was not listening are dropped.
Refill(fault) ==
    /\ ~refill.panicked
    /\ refill.goroutine = "running"
    /\ now >= refill.nextTick
    /\ config' = refillTokens(config, now, fault)
    /\ refill' = [refill EXCEPT !.nextTick =
                     @ + config.interval * (((now - @) \div config.interval) + 1)]
    /\ last' = Event("Refill", NoKey)
    /\ UNCHANGED <<alg, span, window, mu, procs, storage, now, leaks, hist>>

\* Stop closes stopChannel; closing a closed channel panics.
Stop ==
    /\ ~refill.panicked
    /\ alg = "TokenBucket"
    /\ refill' = IF refill.stopChannel = "open"
                 THEN [refill EXCEPT !.stopChannel = "closed"]
                 ELSE [refill EXCEPT !.panicked = TRUE]
    /\ last' = Event("Stop", NoKey)
    /\ UNCHANGED <<alg, span, window, mu, procs, storage, config, now, leaks, hist>>

\* The refill goroutine receives from the closed stopChannel and returns.
RefillExit ==
    /\ ~refill.panicked
    /\ refill.goroutine = "running"
    /\ refill.stopChannel = "closed"
    /\ refill' = [refill EXCEPT !.goroutine = "exited"]
    /\ last' = Event("RefillExit", NoKey)
    /\ UNCHANGED <<alg, span, window, mu, procs, storage, config, now, leaks, hist>>

Next ==
    \/ \E key \in KeysUsed : \E fault \in AllowFaults : AllowCall(key, fault)
    \/ \E key \in KeysUsed : \E fault \in QuotaFaults : QuotaCall(key, fault)
    \/ \E key \in KeysUsed : \E fault \in NextAllowedFaults : NextAllowedCall(key, fault)
    \/ Tick
    \/ \E key \in KeysUsed : \E due \in DueTimes : Leak(key, due)
    \/ \E fault \in RefillFaults : Refill(fault)
    \/ Stop
    \/ RefillExit

Spec == Init /\ [][Next]_vars

\* ------------------------------------------------- the Token Bucket alone
\* The Token Bucket with its overflow counter followed one call further, so
\* that a key already above burstLimit is called again.
TokenBucketInit == Init /\ alg = "TokenBucket"

TokenBucketNext ==
    \/ \E key \in KeysUsed : \E fault \in AllowFaults : AllowCallUpTo(CountCap + 1, key, fault)
    \/ \E key \in KeysUsed : \E fault \in QuotaFaults : QuotaCall(key, fault)
    \/ \E key \in KeysUsed : \E fault \in NextAllowedFaults : NextAllowedCall(key, fault)
    \/ Tick
    \/ \E fault \in RefillFaults : Refill(fault)
    \/ Stop
    \/ RefillExit

TokenBucketSpec == TokenBucketInit /\ [][TokenBucketNext]_vars

\* ------------------------------------------------- the Leaky Bucket alone
\* The Leaky Bucket with the admissions counted per stretch of one interval.
LeakyBucketInit == Init /\ alg = "LeakyBucket"

LeakyBucketNext ==
    \/ \E key \in KeysUsed : \E fault \in AllowFaults : LeakyBucketAllowCall(key, fault)
    \/ \E key \in KeysUsed : \E fault \in QuotaFaults : QuotaCall(key, fault)
    \/ \E key \in KeysUsed : \E fault \in NextAllowedFaults : NextAllowedCall(key, fault)
    \/ Tick
    \/ \E key \in KeysUsed : \E due \in DueTimes : Leak(key, due)

LeakyBucketSpec == LeakyBucketInit /\ [][LeakyBucketNext]_vars

\* ------------------------------------------------------- interleaved steps
\* The same program with every call taken step by step: Lock, the reads of
\* the Parameter Source, the writes (Increment, SetTTL, SetTokens, the go
\* statement), and the return with its deferred Unlock.
ReadFaults == {"MaxRequests", "Interval", "BurstLimit", "Tokens"}

\* Allow calls explored on one key in one window, step by step.
StepCap ==
    IF CountCap < MaxMaxRequests + MaxBurstLimit + Slack
    THEN CountCap ELSE MaxMaxRequests + MaxBurstLimit + Slack

\* A caller enters Allow.  The callers are interchangeable: c2 is the one
\* that enters while c1 is in a call.
AllowEnter(c, key) ==
    /\ ~refill.panicked
    /\ procs[c].pc = "idle"
    /\ c = "c2" => procs["c1"].pc # "idle"
    /\ \/ storage.data[key] < StepCap
       \/ alg = "TokenBucket" /\ config.tokens > 0
    /\ procs' = [procs EXCEPT ![c] = [Idle EXCEPT !.pc = "lock", !.key = key]]
    /\ UNCHANGED <<alg, span, window, storage, config, now, leaks, refill, last, hist, mu>>

\* mu.Lock() taking the mutex although another goroutine holds it.
AllowLockNoWait(c) ==
    /\ ~refill.panicked
    /\ procs[c].pc = "lock"
    /\ mu' = c
    /\ procs' = [procs EXCEPT ![c].pc = "read"]
    /\ UNCHANGED <<alg, span, window, storage, config, now, leaks, refill, last, hist>>

\* mu.Lock(): blocks until the mutex is free.
AllowLock(c) ==
    /\ ~refill.panicked
    /\ procs[c].pc = "lock"
    /\ mu = "free"
    /\ mu' = c
    /\ procs' = [procs EXCEPT ![c].pc = "read"]
    /\ UNCHANGED <<alg, span, window, storage, config, now, leaks, refill, last, hist>>

\* The reads of the Parameter Source; a failing read returns its error.
AllowRead(c, fault) ==
    /\ ~refill.panicked
    /\ procs[c].pc = "read"
    /\ procs' = [procs EXCEPT ![c] =
                    IF fault = "none"
                    THEN [@ EXCEPT !.pc = "write", !.read = config]
                    ELSE [@ EXCEPT !.pc = "return", !.err = fault, !.failed = fault]]
    /\ UNCHANGED <<alg, span, window, storage, config, now, leaks, refill, last, hist, mu>>

\* The rest of the body, run on the parameters read: SetTokens on the token
\* path, Increment and SetTTL otherwise, and the go statement of the leak.
AllowWrite(c, fault) ==
    /\ ~refill.panicked
    /\ procs[c].pc = "write"
    /\ LET p == procs[c]
           r == Allow(storage, p.read, p.key, now, fault)
       IN  /\ storage' = r.storage
           /\ config' = IF r.config.tokens # p.read.tokens
                         THEN [config EXCEPT !.tokens = r.config.tokens]
                         ELSE config
           /\ leaks' = IF r.leak /\ now + p.read.interval \in DueTimes
                        THEN [leaks EXCEPT ![p.key][now + p.read.interval] = @ + 1]
                        ELSE leaks
           /\ hist' = HistAfterAllow(p.key, r)
           /\ procs' = [procs EXCEPT ![c] =
                           [@ EXCEPT !.pc = "return", !.admitted = r.admitted,
                                     !.err = r.err, !.failed = r.failed]]
    /\ UNCHANGED <<alg, span, window, now, refill, last, mu>>

\* The return, with the deferred mu.Unlock().
AllowReturn(c) ==
    /\ ~refill.panicked
    /\ procs[c].pc = "return"
    /\ mu' = "free"
    /\ last' = Call("Allow", procs[c].key, procs[c].admitted, procs[c].err,
                     procs[c].failed, 0, 0, 0, 0)
    /\ procs' = [procs EXCEPT ![c] = Idle]
    /\ UNCHANGED <<alg, span, window, storage, config, now, leaks, refill, hist>>

\* The refill goroutine receives a tick from ticker.C (its select may take
\* this case also when stopChannel is closed).
RefillTick ==
    /\ ~refill.panicked
    /\ refill.goroutine = "running"
    /\ now >= refill.nextTick
    /\ refill' = [refill EXCEPT
                     !.goroutine = "lock",
                     !.nextTick = @ + config.interval * (((now - @) \div config.interval) + 1)]
    /\ UNCHANGED <<alg, span, window, storage, config, now, leaks, last, hist, mu, procs>>

\* The goroutine's mu.Lock() taking the mutex although a caller holds it.
RefillLockNoWait ==
    /\ ~refill.panicked
    /\ refill.goroutine = "lock"
    /\ mu' = "refill"
    /\ refill' = [refill EXCEPT !.goroutine = "read"]
    /\ UNCHANGED <<alg, span, window, storage, config, now, leaks, last, hist, procs>>

\* The goroutine's mu.Lock().
RefillLock ==
    /\ ~refill.panicked
    /\ refill.goroutine = "lock"
    /\ mu = "free"
    /\ mu' = "refill"
    /\ refill' = [refill EXCEPT !.goroutine = "read"]
    /\ UNCHANGED <<alg, span, window, storage, config, now, leaks, last, hist, procs>>

\* refillTokens takes time.Now() and reads the Parameter Source.
RefillRead ==
    /\ ~refill.panicked
    /\ refill.goroutine = "read"
    /\ procs' = [procs EXCEPT !["refill"] = [Idle EXCEPT !.read = config, !.t = now]]
    /\ refill' = [refill EXCEPT !.goroutine = "write"]
    /\ UNCHANGED <<alg, span, window, storage, config, now, leaks, last, hist, mu>>

\* refillTokens writes what it computed from what it read: SetTokens, then
\* SetLastRefill (nothing when Interval failed).
RefillWrite(fault) ==
    /\ ~refill.panicked
    /\ refill.goroutine = "write"
    /\ LET p == procs["refill"]
           r == refillTokens(p.read, p.t, fault)
       IN  config' = [config EXCEPT
                        !.tokens = IF fault \in {"Interval", "SetTokens"} THEN @ ELSE r.tokens,
                        !.lastRefill = IF fault \in {"Interval", "SetLastRefill"} THEN @
                                       ELSE r.lastRefill]
    /\ procs' = [procs EXCEPT !["refill"] = Idle]
    /\ refill' = [refill EXCEPT !.goroutine = "unlock"]
    /\ UNCHANGED <<alg, span, window, storage, now, leaks, last, hist, mu>>

\* The goroutine's mu.Unlock(); it goes back to its select.
RefillUnlock ==
    /\ ~refill.panicked
    /\ refill.goroutine = "unlock"
    /\ mu' = "free"
    /\ refill' = [refill EXCEPT !.goroutine = "running"]
    /\ last' = Event("Refill", NoKey)
    /\ UNCHANGED <<alg, span, window, storage, config, now, leaks, hist, procs>>

\* The callers contend for one key.
StepKeys == {"k1"}

ConcurrentNext ==
    \/ \E c \in Callers : \E key \in StepKeys : AllowEnter(c, key)
    \/ \E c \in Callers : AllowLock(c)
    \/ \E c \in Callers : \E fault \in {"none"} \cup (AllowFaults \cap ReadFaults) :
          AllowRead(c, fault)
    \/ \E c \in Callers : \E fault \in AllowFaults \ ReadFaults : AllowWrite(c, fault)
    \/ \E c \in Callers : AllowReturn(c)
    \/ Tick
    \/ \E key \in StepKeys : \E due \in DueTimes : Leak(key, due)
    \/ RefillTick
    \/ RefillLock
    \/ RefillRead
    \/ \E fault \in RefillFaults : RefillWrite(fault)
    \/ RefillUnlock
    \/ Stop
    \/ RefillExit

ConcurrentSpec == Init /\ [][ConcurrentNext]_vars

\* The scheduler runs every goroutine that can take a step; a goroutine
\* waiting in mu.Lock() gets the mutex when it is free again and again
\* (sync.Mutex hands it to a starving waiter), and the refill goroutine's
\* select, which picks among its ready cases at random, takes the closed
\* stopChannel in the end.
Fairness ==
    /\ \A c \in Callers :
          /\ SF_vars(AllowLock(c))
          /\ WF_vars(\E fault \in {"none"} \cup (AllowFaults \cap ReadFaults) : AllowRead(c, fault))
          /\ WF_vars(\E fault \in AllowFaults \ ReadFaults : AllowWrite(c, fault))
          /\ WF_vars(AllowReturn(c))
    /\ SF_vars(RefillLock)
    /\ WF_vars(RefillRead)
    /\ WF_vars(\E fault \in RefillFaults : RefillWrite(fault))
    /\ WF_vars(RefillUnlock)
    /\ SF_vars(RefillExit)

FairSpec == Init /\ [][ConcurrentNext]_vars /\ Fairness

\* ------------------------------------------- two instances, one Counter Store
\* Two Fixed Window (or Sliding Window) instances with the same limits over
\* one store, each called by one caller (c1 the one, c2 the other) on the
\* same key.  Each instance has its own mutex, which its only caller always
\* finds free; the store's operations are atomic one by one.
SharedInit == Init /\ alg \in {"FixedWindow", "SlidingWindow"}

\* mu.Lock() on the caller's own instance.
SharedLock(c) ==
    /\ procs[c].pc = "lock"
    /\ procs' = [procs EXCEPT ![c].pc = "read"]
    /\ UNCHANGED <<alg, span, window, storage, config, now, leaks, refill, last, hist, mu>>

\* Increment, and the decision it settles: a count other than 1 skips SetTTL.
SharedIncrement(c, fault) ==
    /\ procs[c].pc = "write"
    /\ LET p == procs[c]
           inc == Increment(storage, p.key)
           admitted == ~(inc.val > p.read.maxRequests + p.read.burstLimit)
       IN  IF fault = "Increment"
           THEN /\ procs' = [procs EXCEPT ![c] =
                               [@ EXCEPT !.pc = "return", !.err = fault, !.failed = fault]]
                /\ UNCHANGED <<storage, window>>
           ELSE /\ storage' = inc.storage
                /\ procs' = [procs EXCEPT ![c] =
                               [@ EXCEPT !.pc = IF inc.val = 1 THEN "setttl" ELSE "return",
                                         !.admitted = admitted]]
                /\ window' = IF inc.val # 1 /\ admitted
                             THEN [window EXCEPT ![p.key].admitted = @ + 1]
                             ELSE window
    /\ UNCHANGED <<alg, span, config, now, leaks, refill, last, hist, mu>>

\* SetTTL by the call whose Increment returned 1; its failure is returned.
SharedSetTTL(c, fault) ==
    /\ procs[c].pc = "setttl"
    /\ LET p == procs[c]
       IN  IF fault = "SetTTL"
           THEN /\ procs' = [procs EXCEPT ![c] =
                               [@ EXCEPT !.pc = "return", !.admitted = FALSE,
                                         !.err = fault, !.failed = fault]]
                /\ window' = [window EXCEPT ![p.key].setTTLs = @ + 1]
                /\ UNCHANGED storage
           ELSE /\ storage' = SetTTL(storage, p.key, p.read.interval, now)
                /\ procs' = [procs EXCEPT ![c].pc = "return"]
                /\ window' = [window EXCEPT
                                 ![p.key].setTTLs = @ + 1,
                                 ![p.key].admitted = IF p.admitted THEN @ + 1 ELSE @]
    /\ UNCHANGED <<alg, span, config, now, leaks, refill, last, hist, mu>>

\* The clock advances; the Redis server expires what is due, which closes
\* the key's window.
SharedTick ==
    /\ now < MaxTime
    /\ now' = now + 1
    /\ storage' = ExpireKeys(storage, now + 1)
    /\ window' = [k \in Keys |->
                     IF storage.data[k] > 0 /\ ExpireKeys(storage, now + 1).data[k] = 0
                     THEN NoTally ELSE window[k]]
    /\ last' = Event("Tick", NoKey)
    /\ UNCHANGED <<alg, span, config, leaks, refill, hist, mu, procs>>

SharedNext ==
    \/ \E c \in Callers : \E key \in StepKeys : AllowEnter(c, key)
    \/ \E c \in Callers : SharedLock(c)
    \/ \E c \in Callers : \E fault \in {"none"} \cup (AllowFaults \cap ReadFaults) :
          AllowRead(c, fault)
    \/ \E c \in Callers : \E fault \in {"none", "Increment"} : SharedIncrement(c, fault)
    \/ \E c \in Callers : \E fault \in {"none", "SetTTL"} : SharedSetTTL(c, fault)
    \/ \E c \in Callers : AllowReturn(c)
    \/ SharedTick

SharedStoreSpec == SharedInit /\ [][SharedNext]_vars

TypeOK ==
    /\ alg \in Algorithms
    /\ now \in 0..MaxTime
    /\ storage.kind \in Backends
    /\ \A k \in Keys : storage.data[k] \in Nat

\* ================================================================== claims
Limit == config.maxRequests + config.burstLimit

\* The last step was an Allow call on key, the n-th call of the key's current
\* window, and no collaborator operation has failed in that window.
NthAllow(key, n) ==
    /\ last.op = "Allow"
    /\ last.key = key
    /\ n > 0
    /\ hist[key].calls = n

\* C1: Fixed Window: the n-th Allow call of a key's window (counted from the
\* call that takes the counter from 0 to 1, up to the store's next reset) is
\* admitted iff n <= maxRequests + burstLimit.
C1_FixedWindowLimit ==
    alg = "FixedWindow" =>
        \A key \in Keys : \A n \in 1..(Limit + Slack + 1) :
            NthAllow(key, n) => (last.admitted <=> n <= Limit)

\* A call beyond the limit was denied, after the first interval.
C1_Witness ==
    /\ alg = "FixedWindow"
    /\ NthAllow(last.key, Limit + 1)
    /\ ~last.admitted
    /\ now >= Interval

ExampleFixedWindow ==
    /\ alg = "FixedWindow"
    /\ config.maxRequests = ExampleMaxRequests
    /\ config.burstLimit = ExampleBurstLimit

\* C2 as stated: Fixed Window with maxRequests=5, burstLimit=2: of 7
\* sequential Allow calls on a fresh key exactly the first 5 are admitted.
C2_ExampleAdmitsFive ==
    ExampleFixedWindow =>
        \A n \in 1..(ExampleMaxRequests + ExampleBurstLimit) :
            NthAllow("k1", n) => (last.admitted <=> n <= ExampleMaxRequests)

\* C2 as amended: Fixed Window with maxRequests=5, burstLimit=2: of the
\* sequential Allow calls on a fresh key the first 7 are all admitted, and the
\* 8th is denied.
C2_ExampleAdmitsSeven ==
    ExampleFixedWindow =>
        /\ \A n \in 1..(ExampleMaxRequests + ExampleBurstLimit) :
              NthAllow("k1", n) => last.admitted
        /\ NthAllow("k1", ExampleMaxRequests + ExampleBurstLimit + 1) => ~last.admitted

\* The 7th call of the example was made and admitted.
C2_Witness ==
    /\ ExampleFixedWindow
    /\ NthAllow("k1", ExampleMaxRequests + ExampleBurstLimit)
    /\ last.admitted

\* C3: Leaky Bucket with burstLimit > 0: the i-th sequential Allow call on a
\* key, with no reset or leak in between, returns no error and is admitted
\* iff i <= maxRequests.
C3_LeakyBucketAdmitsMaxRequests ==
    (alg = "LeakyBucket" /\ config.burstLimit > 0) =>
        \A key \in Keys : \A i \in 1..(Limit + Slack + 1) :
            NthAllow(key, i) =>
                (last.err = "nil" /\ (last.admitted <=> i <= config.maxRequests))

\* The last step was the first Allow call on key after the store's expiry
\* closed a window in which the key had been denied, and nothing failed in it.
ReopensAfterDenial(key) ==
    /\ last.op = "Allow"
    /\ last.key = key
    /\ last.failed = "none"
    /\ hist[key].prev = "expiredDenied"

\* C4: Fixed Window: the first Allow call on a key after the store's expiry
\* has reset a counter that was above the limit is admitted, sees count 1 and
\* sets the TTL to interval again.
C4_FixedWindowReopens ==
    alg = "FixedWindow" =>
        \A key \in Keys :
            ReopensAfterDenial(key) =>
                /\ last.admitted
                /\ hist[key].calls = 1
                /\ storage.data[key] = 1
                /\ storage.ttl[key] = now + config.interval

C4_Witness ==
    /\ alg = "FixedWindow"
    /\ ReopensAfterDenial(last.key)
    /\ last.admitted

\* C5: in all four limiters, an Allow call whose Increment fails returns that
\* error and does not admit.
C5_IncrementFailureDenies ==
    (last.op = "Allow" /\ last.failed = "Increment") =>
        (last.err = "Increment" /\ ~last.admitted)

\* A Token Bucket call made without tokens found Increment failing.
C5_Witness ==
    /\ alg = "TokenBucket"
    /\ config.tokens = 0
    /\ last.op = "Allow"
    /\ last.failed = "Increment"

\* C6: an Allow call in which a Parameter Source operation fails returns that
\* error and does not admit.
C6_ConfigFailureDenies ==
    (last.op = "Allow" /\ last.failed \in ConfigOps) =>
        (last.err = last.failed /\ ~last.admitted)

\* C7: a Quota call changes nothing in the Counter Store, the Parameter
\* Source, the clock, the pending leaks or the refill process, so that what
\* later calls return does not depend on it.
C7_QuotaReadOnly ==
    [][last'.op = "Quota" => UNCHANGED <<storage, config, now, leaks, refill>>]_vars

\* Quota returned a count above 0.
C7_Witness ==
    /\ last.op = "Quota"
    /\ last.err = "nil"
    /\ last.count > 0

\* C8: a NextAllowed call on a key that the next Allow would admit, or that
\* has no TTL, returns a duration <= 0.
C8_NextAllowedWhenEligible ==
    (/\ last.op = "NextAllowed"
     /\ last.err = "nil"
     /\ \/ Allow(storage, config, last.key, now, "none").admitted
        \/ storage.ttl[last.key] = ZeroTime)
    => last.dur <= 0

\* The last step was an admitted Leaky Bucket Allow call on key that took the
\* counter to 1.
LeakyBucketOpened(key) ==
    /\ alg = "LeakyBucket"
    /\ last.op = "Allow"
    /\ last.key = key
    /\ last.admitted
    /\ storage.data[key] = 1

\* C9: Leaky Bucket: after an admitted Allow call that took the counter to 1
\* the key expires exactly interval from now, and NextAllowed called at once
\* returns d with 0 < d <= interval.
C9_LeakyBucketFirstSetsTTL ==
    \A key \in Keys :
        LeakyBucketOpened(key) =>
            /\ storage.ttl[key] = now + config.interval
            /\ LET r == LeakyBucketNextAllowed(storage, config, key, now, "none")
               IN  r.err = "nil" /\ 0 < r.dur /\ r.dur <= config.interval

\* A bucket was opened after the first interval.
C9_Witness ==
    /\ LeakyBucketOpened(last.key)
    /\ now >= Interval

\* C10: Token Bucket: an Allow call made with balance > 0 leaves the Counter
\* Store as it is, and, when no collaborator operation fails in it, admits
\* and takes exactly 1 from the balance.
C10_TokenPath ==
    [][(alg = "TokenBucket" /\ config.tokens > 0 /\ last'.op = "Allow") =>
          /\ storage' = storage
          /\ last'.failed = "none" =>
                /\ last'.admitted
                /\ last'.err = "nil"
                /\ config' = [config EXCEPT !.tokens = config.tokens - 1]]_vars

\* A Token Bucket call was admitted with no key ever counted in the store.
C10_Witness ==
    /\ alg = "TokenBucket"
    /\ last.op = "Allow"
    /\ last.admitted
    /\ last.failed = "none"
    /\ \A key \in Keys : storage.data[key] = 0

\* C11: Token Bucket: an Allow call made with balance 0, in which no
\* collaborator operation fails, increments the key's overflow counter exactly
\* once, leaves the balance at 0, and admits iff the count after the increment
\* is <= burstLimit.
C11_OverflowPath ==
    [][(alg = "TokenBucket" /\ config.tokens = 0
            /\ last'.op = "Allow" /\ last'.failed = "none") =>
          /\ storage'.data[last'.key] = storage.data[last'.key] + 1
          /\ config'.tokens = 0
          /\ last'.err = "nil"
          /\ last'.admitted <=> storage'.data[last'.key] <= config.burstLimit]_vars

\* An overflow call was denied right after the burst limit was used up.
C11_Witness ==
    /\ alg = "TokenBucket"
    /\ config.tokens = 0
    /\ config.burstLimit >= 1
    /\ last.op = "Allow"
    /\ last.failed = "none"
    /\ ~last.admitted
    /\ storage.data[last.key] = config.burstLimit + 1

\* C12: Token Bucket: from an initial balance in [0, maxRequests] and any
\* initial last-refill instant, the balance stays within [0, maxRequests].
C12_BalanceInRange ==
    alg = "TokenBucket" => (0 <= config.tokens /\ config.tokens <= config.maxRequests)

\* C13: Token Bucket: with the last refill at t0 <= t1 <= t2 and no Allow in
\* between, refilling at t1 and then at t2 gives the balance that refilling
\* once at t2 gives.
C13_RefillIdempotent ==
    alg = "TokenBucket" =>
        \A t1 \in now..(now + 2 * Interval) : \A t2 \in t1..(now + 2 * Interval) :
            config.lastRefill <= t1 =>
                refillTokens(refillTokens(config, t1, "none"), t2, "none").tokens
                    = refillTokens(config, t2, "none").tokens

\* C14: Token Bucket: a second Stop completes normally, without a panic.
C14_StopIdempotent == ~refill.panicked

\* C15: Token Bucket: once Stop has returned, the refill goroutine writes
\* neither the balance nor the last-refill instant.
C15_NoRefillAfterStop ==
    [][(refill.stopChannel = "closed" /\ last'.op = "Refill") =>
          (config'.tokens = config.tokens /\ config'.lastRefill = config.lastRefill)]_vars

\* C18: Token Bucket with balance 0 and last refill at the construction time:
\* the first refill, run less than two intervals after construction, makes the
\* balance exactly 1; the Allow call that finds balance 1 is admitted on the
\* token path, leaving the Counter Store as it is and the balance at 0; and
\* the Allow call that finds balance 0 takes the overflow path.
C18_FirstRefillGrantsOne ==
    [][alg = "TokenBucket" =>
          /\ (/\ last'.op = "Refill"
               /\ config.tokens = 0 /\ config.lastRefill = 0
               /\ now < 2 * config.interval
               /\ config' = refillTokens(config, now, "none"))
              => config'.tokens = 1
          /\ (last'.op = "Allow" /\ last'.failed = "none" /\ config.tokens = 1)
              => (last'.admitted /\ storage' = storage /\ config'.tokens = 0)
          /\ (last'.op = "Allow" /\ last'.failed = "none" /\ config.tokens = 0)
              => storage'.data[last'.key] = storage.data[last'.key] + 1]_vars

\* With burstLimit 0, a key that had been denied on the overflow path was
\* admitted after the first refill, its overflow count still 1.
C18_Witness ==
    /\ alg = "TokenBucket"
    /\ config.burstLimit = 0
    /\ config.lastRefill = Interval
    /\ config.tokens = 0
    /\ last.op = "Allow"
    /\ last.admitted
    /\ storage.data[last.key] = 1

\* C19: Token Bucket: an Allow call changes the overflow count and expiry of
\* no key but its own, and an admission paid with a token leaves one token
\* less for every key: the next Allow on any key finds the reduced balance,
\* and takes the overflow path when that balance is 0.
C19_SharedBalancePerKeyOverflow ==
    [][(alg = "TokenBucket" /\ last'.op = "Allow") =>
          /\ \A k2 \in Keys \ {last'.key} :
                /\ storage'.data[k2] = storage.data[k2]
                /\ storage'.ttl[k2] = storage.ttl[k2]
          /\ (config.tokens > 0 /\ last'.failed = "none") =>
                \A k2 \in Keys :
                    LET r == TokenBucketAllow(storage', config', k2, now, "none")
                    IN  IF config.tokens >= 2
                        THEN r.config.tokens = config.tokens - 2 /\ r.storage = storage'
                        ELSE /\ r.config.tokens = 0
                             /\ r.storage.data[k2] = storage'.data[k2] + 1]_vars

\* With burstLimit 0, k2 was admitted with a token while k1 has an overflow
\* count of its own.
C19_Witness ==
    /\ alg = "TokenBucket"
    /\ config.burstLimit = 0
    /\ last.op = "Allow"
    /\ last.key = "k2"
    /\ last.admitted
    /\ storage.data["k1"] = 1
    /\ storage.data["k2"] = 0

InAllow(c) == procs[c].pc \in {"write", "return"}

\* C16: for each algorithm, no two Allow calls of the instance are at the
\* same time between their first Parameter Source read and their return, and
\* a call in that span holds the instance's mutex.
C16_AllowMutualExclusion ==
    /\ \A c1 \in Callers : \A c2 \in Callers \ {c1} : ~(InAllow(c1) /\ InAllow(c2))
    /\ \A c \in Callers : procs[c].pc \in {"read", "write", "return"} => mu = c

\* One caller is past its reads while the other waits for the mutex.
C16_Witness ==
    /\ InAllow("c1")
    /\ procs["c1"].pc = "write"
    /\ procs["c2"].pc = "lock"

\* C17: Token Bucket: the refill goroutine reads and writes the balance and
\* the last-refill instant holding the mutex Allow holds, with no Allow in
\* its body meanwhile, so the balance and last-refill instant are, when it
\* writes, what it read, and the balance an Allow call writes back is one
\* less than the balance at that moment.
C17_RefillUnderLock ==
    alg = "TokenBucket" =>
        /\ refill.goroutine \in {"read", "write", "unlock"} =>
              /\ mu = "refill"
              /\ \A c \in Callers : procs[c].pc \notin {"read", "write", "return"}
        /\ refill.goroutine = "write" =>
              /\ procs["refill"].read.tokens = config.tokens
              /\ procs["refill"].read.lastRefill = config.lastRefill
        /\ \A c \in Callers :
              procs[c].pc = "write" => procs[c].read.tokens = config.tokens

\* The refill goroutine is about to write while a caller waits for the mutex.
C17_Witness ==
    /\ alg = "TokenBucket"
    /\ refill.goroutine = "write"
    /\ \E c \in Callers : procs[c].pc = "lock"

\* C21: Leaky Bucket: a leak resets a key's counter no earlier than interval
\* after the Allow call that took the counter from 0 to 1 (the instant the
\* key's TTL, set by that call, runs out).
C21_LeakAfterFirstUnit ==
    [][(/\ alg = "LeakyBucket"
        /\ last'.op = "Leak"
        /\ storage.data[last'.key] > 0
        /\ hist[last'.key].calls > 0)
       => now >= storage.ttl[last'.key]]_vars

\* C22: Sliding Window: Allow admits iff the time-weighted estimate taken
\* just before incrementing (the current window's count plus the previous
\* window's final count scaled by the unelapsed fraction of the current
\* window) is <= maxRequests + burstLimit.  In the first window the estimate
\* of the n-th call is n - 1; at the instant a window rolls over after a
\* window that ended above the limit, the estimate is above the limit.
C22_SlidingWindowWeighted ==
    alg = "SlidingWindow" =>
        \A key \in Keys :
            /\ \A n \in 1..(Limit + Slack + 1) :
                  (now < Interval /\ NthAllow(key, n)) => (last.admitted <=> n - 1 <= Limit)
            /\ (ReopensAfterDenial(key) /\ now = Interval) => ~last.admitted

\* C23: Sliding Window is Fixed Window: in every state either limiter
\* reaches, each Allow, Quota and NextAllowed call returns the same and leaves
\* the same Counter Store with the one as with the other.
C23_SlidingEqualsFixed ==
    alg \in {"FixedWindow", "SlidingWindow"} =>
        \A key \in Keys :
            /\ \A fault \in AllowFaults :
                  SlidingWindowAllow(storage, config, key, now, fault)
                      = FixedWindowAllow(storage, config, key, now, fault)
            /\ \A fault \in QuotaFaults :
                  SlidingWindowQuota(storage, config, key, fault)
                      = FixedWindowQuota(storage, config, key, fault)
            /\ \A fault \in NextAllowedFaults :
                  SlidingWindowNextAllowed(storage, config, key, now, fault)
                      = FixedWindowNextAllowed(storage, config, key, now, fault)

\* Sliding Window admitted the first request after the expiry of a window
\* that ended above the limit, as Fixed Window does.
C23_Witness ==
    /\ alg = "SlidingWindow"
    /\ ReopensAfterDenial(last.key)
    /\ last.admitted

\* C24: with the documented in-memory store, once the expiry set by SetTTL
\* has passed the key's count is 0.
C24_MemoryStoreExpires ==
    (alg = "FixedWindow" /\ storage.kind = "memory" /\ last.op = "Tick") =>
        \A key \in Keys :
            (storage.ttl[key] # ZeroTime /\ storage.ttl[key] <= now) =>
                Get(storage, key).val = 0

Min(a, b) == IF a < b THEN a ELSE b

\* C26: Token Bucket: a refill at time t >= L in which nothing fails, with
\* last refill L and balance b, sets the balance to
\* min(b + floor((t - L) / interval), maxRequests) and the last refill to t.
C26_RefillStep ==
    alg = "TokenBucket" =>
        \A t \in now..(now + 2 * Interval) :
            t >= config.lastRefill =>
                refillTokens(config, t, "none") =
                    [config EXCEPT
                        !.tokens = Min(config.tokens
                                         + ((t - config.lastRefill) \div config.interval),
                                       config.maxRequests),
                        !.lastRefill = t]

\* A refill has added two tokens to a bucket of five.
C26_Witness ==
    /\ alg = "TokenBucket"
    /\ last.op = "Refill"
    /\ config.lastRefill = now
    /\ config.maxRequests = ExampleMaxRequests
    /\ config.tokens = 2

\* C29: Leaky Bucket over the documented in-memory store: a key that a leak
\* has just reset has no active expiry (its TTL is not positive).
C29_ResetKeyHasNoExpiry ==
    (alg = "LeakyBucket" /\ storage.kind = "memory" /\ last.op = "Leak") =>
        (storage.data[last.key] = 0 /\ TTL(storage, last.key, now) <= 0)

\* C27: Fixed Window, Sliding Window and Leaky Bucket: an Allow call sets
\* the key's expiry to interval from now when its Increment returned 1 (and
\* SetTTL did not fail), and leaves it as it is otherwise; it never touches
\* the expiry of another key.
C27_TTLSetOncePerWindow ==
    [][(alg \in {"FixedWindow", "SlidingWindow", "LeakyBucket"} /\ last'.op = "Allow") =>
          /\ \A k2 \in Keys \ {last'.key} : storage'.ttl[k2] = storage.ttl[k2]
          /\ IF /\ storage'.data[last'.key] = storage.data[last'.key] + 1
                /\ storage'.data[last'.key] = 1
                /\ last'.failed # "SetTTL"
             THEN storage'.ttl[last'.key] = now + config.interval
             ELSE storage'.ttl[last'.key] = storage.ttl[last'.key]]_vars

\* A later request of a window opened at time 0 left the expiry where the
\* first had put it.
C27_Witness ==
    /\ alg = "FixedWindow"
    /\ last.op = "Allow"
    /\ last.failed = "none"
    /\ now > 0
    /\ storage.data[last.key] >= 2
    /\ storage.ttl[last.key] = Interval

\* C28: Fixed Window, Sliding Window and Leaky Bucket: an Allow call whose
\* Increment returns 1 and whose SetTTL fails returns the SetTTL error and
\* does not admit; the counter stays at 1, the expiry is not set and no leak
\* is started.
C28_SetTTLFailure ==
    [][(/\ alg \in {"FixedWindow", "SlidingWindow", "LeakyBucket"}
        /\ last'.op = "Allow"
        /\ last'.failed = "SetTTL") =>
          /\ ~last'.admitted
          /\ last'.err = "SetTTL"
          /\ storage.data[last'.key] = 0
          /\ storage'.data[last'.key] = 1
          /\ storage'.ttl = storage.ttl
          /\ leaks' = leaks]_vars

\* A Leaky Bucket call found SetTTL failing at time 0, when a leak it had
\* started would have been recorded.
C28_Witness ==
    /\ alg = "LeakyBucket"
    /\ last.op = "Allow"
    /\ last.failed = "SetTTL"
    /\ now = 0
    /\ storage.data[last.key] = 1

\* C30: Leaky Bucket: no leak resets a key while an Allow call of the
\* instance is between its Increment and its return.
C30_LeakUnderLock ==
    [][(alg = "LeakyBucket" /\ last'.op = "Leak" /\ storage.data[last'.key] > 0) =>
          \A c \in Callers :
              ~(procs[c].pc = "return" /\ procs[c].failed \in {"none", "SetTTL"})]_vars

\* C25: two Fixed Window (or Sliding Window) instances over one store, called
\* concurrently on one key: within one window the calls admitted by both are
\* at most maxRequests + burstLimit, at most one call issues SetTTL, and one
\* has done so once the call that opened the window is past it.
C25_SharedStoreLimit ==
    alg \in {"FixedWindow", "SlidingWindow"} =>
        \A k \in StepKeys :
            /\ window[k].admitted <= Limit
            /\ window[k].setTTLs <= 1
            /\ (storage.data[k] >= 1 /\ \A c \in Callers : procs[c].pc # "setttl")
                  => window[k].setTTLs = 1

\* One instance's call has opened the window and not yet set the TTL while
\* the other's has counted the second request and admitted it.
C25_Witness ==
    /\ procs["c1"].pc = "setttl"
    /\ procs["c2"].pc = "return"
    /\ procs["c2"].admitted
    /\ storage.data["k1"] = 2

\* C31: Leaky Bucket: in a stretch of length interval that starts at a call
\* taking a key's counter from 0 to 1, at most maxRequests + burstLimit
\* calls on the key are admitted.
C31_LeakyBucketSpanLimit ==
    alg = "LeakyBucket" =>
        \A key \in Keys : span[key].admitted <= Limit

\* C32: Fixed Window: between calls, every key with a count of 1 or more has
\* an expiry that is set and still ahead, also after a call whose SetTTL
\* failed.
C32_CountedKeyHasExpiry ==
    alg = "FixedWindow" =>
        \A key \in Keys :
            storage.data[key] >= 1 =>
                (storage.ttl[key] # ZeroTime /\ storage.ttl[key] > now)

\* C33: Fixed Window, Sliding Window and Leaky Bucket: when no collaborator
\* operation has failed since the key's last reset, Quota returns as count
\* the number of Allow calls made on the key since then, admitted or denied
\* (and returns it without error once there was one).
C33_QuotaCountsDenied ==
    alg \in {"FixedWindow", "SlidingWindow", "LeakyBucket"} =>
        \A key \in Keys :
            hist[key].calls # Poisoned =>
                LET r == Quota(storage, config, key, "none")
                IN  /\ r.count = hist[key].calls
                    /\ hist[key].calls >= 1 => r.err = "nil"

\* Quota returned a count above the limit, the number of calls made.
C33_Witness ==
    /\ alg \in {"FixedWindow", "SlidingWindow", "LeakyBucket"}
    /\ last.op = "Quota"
    /\ last.err = "nil"
    /\ last.count > Limit
    /\ hist[last.key].calls = last.count

\* C34: Token Bucket: no step of Allow, Quota, NextAllowed, the refill or
\* Stop changes a key's expiry or lowers its overflow count, and an Allow
\* call made with balance 0 on a key whose count is already above burstLimit
\* is denied.
C34_OverflowNeverReset ==
    [][alg = "TokenBucket" =>
          /\ \A k \in Keys :
                /\ storage'.ttl[k] = storage.ttl[k]
                /\ storage'.data[k] >= storage.data[k]
          /\ (/\ last'.op = "Allow"
              /\ config.tokens = 0
              /\ storage.data[last'.key] > config.burstLimit)
             => ~last'.admitted]_vars

\* On the Redis store, an interval after the key went above burstLimit, a
\* further call made with balance 0 was counted and denied.
C34_Witness ==
    /\ alg = "TokenBucket"
    /\ storage.kind = "redis"
    /\ now >= Interval
    /\ last.op = "Allow"
    /\ last.failed = "none"
    /\ ~last.admitted
    /\ config.tokens = 0
    /\ storage.data[last.key] = config.burstLimit + 2

\* The caller's step admits its request with a token: it had read a balance
\* above 0 and goes to its return admitted.
SpendsToken(c) ==
    /\ procs[c].pc = "write"
    /\ procs[c].read.tokens > 0
    /\ procs'[c].pc = "return"
    /\ procs'[c].admitted

\* The tokens the step adds to the balance as a refill.
TokensAdded ==
    IF refill.goroutine = "write" /\ refill'.goroutine = "unlock"
    THEN config'.tokens - config.tokens
    ELSE 0

\* C35: Token Bucket, with concurrent callers and the refill goroutine taken
\* step by step: the admissions paid with a token plus the balance never grow
\* by more than the tokens refills add, in any step; so admissions so far
\* plus balance stay within the initial balance plus the tokens added.
C35_TokenConservation ==
    [][alg = "TokenBucket" =>
          \A c \in Callers :
              (IF SpendsToken(c) THEN 1 ELSE 0) + (config'.tokens - config.tokens)
                  <= TokensAdded]_vars

\* C36: Token Bucket: a refill step in which the read of Tokens, MaxRequests
\* or LastRefill fails leaves the balance and the last-refill instant as
\* they were.
C36_RefillReadFailure ==
    (alg = "TokenBucket" /\ refill.goroutine = "running" /\ now >= refill.nextTick) =>
        \A fault \in {"Tokens", "MaxRequests", "LastRefill"} :
            /\ refillTokens(config, now, fault).tokens = config.tokens
            /\ refillTokens(config, now, fault).lastRefill = config.lastRefill

\* C37: under fair scheduling, with concurrent callers and the refill
\* goroutine taken step by step: a caller that is not in Allow does not hold
\* the mutex, every started Allow call returns, every started refill step
\* ends with the mutex released, and every Stop completes.
C37_NoDeadlock ==
    /\ [](\A c \in Callers : procs[c].pc \in {"idle", "lock"} => mu # c)
    /\ [](~refill.panicked)
    /\ \A c \in Callers : (procs[c].pc # "idle") ~> (procs[c].pc = "idle")
    /\ (refill.goroutine \in {"lock", "read", "write", "unlock"})
          ~> (refill.goroutine \in {"running", "exited"})

====
